---- MODULE Spec2Model ----
(***************************************************************************)
(* ragflow-plus: the HTTP-RPC blueprint (api/apps/rpc_app.py) and the      *)
(* Nacos configuration / registry manager (api/nacos_config.py).           *)
(*                                                                         *)
(* Python values are tagged records: [t |-> "None"], [t |-> "str", v],     *)
(* [t |-> "int", v], [t |-> "list", v] (a sequence of values) and          *)
(* [t |-> "dict", v] (a set of <<key, value>> pairs, one per key).         *)
(***************************************************************************)
EXTENDS Integers, Sequences, FiniteSets, TLC

VARIABLES
    (* ---- HTTP layer ---- *)
    strict_json,          \* the installed werkzeug rejects a non-JSON request in get_json
    last,                 \* the request served most recently, with its response
    pinned,               \* an earlier request and the response it received
    (* ---- registry manager ---- *)
    env,                  \* whether the process environment sets the manager's variables
    instances,            \* the registry server's naming instances
    watchers,             \* the registry client's config watchers
    config_cache,         \* NacosConfigManager.config_cache
    fetched,              \* per thread: a get_config between the client call and the cache write
    latest,               \* per (group, data_id): what the registry answered last
    last_call,            \* the manager call that returned most recently, with its outcome
    phase,                \* the process between start-up and shutdown
    registered,           \* arguments of the registrations in force
    last_removed,         \* the registered instance deregistered last and not registered since
    (* ---- singleton accessor ---- *)
    nacos_config_manager, \* the module global
    constructed,          \* how many NacosConfigManager objects were ever constructed
    pc,                   \* per thread: position inside get_nacos_config_manager
    ret                   \* per thread: the instance its last call returned

rpc_vars == <<strict_json, last, pinned>>
reg_vars == <<env, instances, watchers, last_call, phase>>
cfg_vars == <<config_cache, fetched, latest>>
sgl_vars == <<nacos_config_manager, constructed, pc, ret>>
obs_vars == <<registered, last_removed>>
vars == <<rpc_vars, reg_vars, cfg_vars, sgl_vars, obs_vars>>

MaxInstances == 2
NumThreads == 2

None == [t |-> "None"]
PyStr(s) == [t |-> "str", v |-> s]
PyInt(n) == [t |-> "int", v |-> n]
PyList(s) == [t |-> "list", v |-> s]
PyDict(d) == [t |-> "dict", v |-> d]

\* Python truth value testing, as `if not data` and `x or default` apply it.
Truthy(x) ==
    CASE x.t = "None" -> FALSE
      [] x.t = "str"  -> x.v # ""
      [] x.t = "int"  -> x.v # 0
      [] x.t = "list" -> Len(x.v) > 0
      [] x.t = "dict" -> x.v # {}

\* dict.get(key, default)
DictGet(d, key, default) ==
    IF \E p \in d.v : p[1] = key
    THEN (CHOOSE p \in d.v : p[1] = key)[2]
    ELSE default

DictKeys(d) == {p[1] : p \in d.v}

\* str(x), as an f-string formats a value (lists hold integers here).
RECURSIVE JoinInts(_)
JoinInts(s) ==
    IF Len(s) = 0 THEN ""
    ELSE IF Len(s) = 1 THEN ToString(s[1].v)
    ELSE ToString(s[1].v) \o ", " \o JoinInts(Tail(s))

PyFormat(x) ==
    CASE x.t = "None" -> "None"
      [] x.t = "str"  -> x.v
      [] x.t = "int"  -> ToString(x.v)
      [] x.t = "list" -> "[" \o JoinInts(x.v) \o "]"

(***************************************************************************)
(* api/apps/rpc_app.py                                                     *)
(***************************************************************************)
RPC_PREFIX == "/rpc"

Returned(x) == [raised |-> FALSE, value |-> x]
Raised(msg) == [raised |-> TRUE, value |-> PyStr(msg)]

\* flask's request.get_json(): the parsed document; None or an HTTP error for a
\* request that is not JSON (which one is the installed werkzeug's choice); an
\* HTTP error for a body that does not parse.
get_json(req) ==
    CASE req.body.kind = "absent" ->
            IF strict_json
            THEN Raised("415 Unsupported Media Type")
            ELSE Returned(None)
      [] req.body.kind = "malformed" -> Raised("400 Bad Request")
      [] req.body.kind = "json" -> Returned(req.body.value)

Response(status, pairs) == [status |-> status, json |-> PyDict(pairs)]

ErrorResponse(status, msg) ==
    Response(status, {<<"error", PyStr(msg)>>, <<"status", PyStr("error")>>})

\* `data.get` on a truthy value that is not a dict raises AttributeError.
NoGetAttr(x) == "'" \o x.t \o "' object has no attribute 'get'"

health_check_registered ==
    IF instances = {}
    THEN Response(503, {<<"status", PyStr("unhealthy")>>,
                        <<"service", PyStr("ragflow-plus")>>,
                        <<"message", PyStr("RAGFlow service is not registered")>>})
    ELSE Response(200, {<<"status", PyStr("healthy")>>,
                        <<"service", PyStr("ragflow-plus")>>,
                        <<"message", PyStr("RAGFlow service is running")>>})

health_check ==
    Response(200, {<<"status", PyStr("healthy")>>,
                   <<"service", PyStr("ragflow-plus")>>,
                   <<"message", PyStr("RAGFlow service is running")>>})

\* len(x): defined for str, list and dict, TypeError otherwise.
HasLen(x) == x.t \in {"str", "list", "dict"}
PyLen(x) == IF x.t = "dict" THEN Cardinality(x.v) ELSE Len(x.v)

process_document_len_by_name(req) ==
    LET got == get_json(req) IN
    IF got.raised THEN ErrorResponse(500, got.value.v)
    ELSE LET data == got.value IN
    IF ~Truthy(data) THEN ErrorResponse(400, "No data provided")
    ELSE IF data.t # "dict" THEN ErrorResponse(500, NoGetAttr(data))
    ELSE LET document_content == DictGet(data, "document_content", PyStr(""))
             document_name == DictGet(data, "document_name", PyStr("unnamed"))
         IN
         IF Truthy(document_content) /\ ~HasLen(document_content)
         THEN ErrorResponse(500, "object of type '" \o document_content.t
                                  \o "' has no len()")
         ELSE Response(200, {
                <<"status", PyStr("success")>>,
                <<"document_name", document_name>>,
                <<"content_length",
                  PyInt(IF Truthy(document_name)
                        THEN PyLen(document_content) ELSE 0)>>,
                <<"message", PyStr("Document " \o PyFormat(document_name)
                                   \o " processed successfully")>>})

process_document(req) ==
    LET got == get_json(req) IN
    IF got.raised THEN ErrorResponse(500, got.value.v)
    ELSE LET data == got.value IN
    IF ~Truthy(data) THEN ErrorResponse(400, "No data provided")
    ELSE IF data.t # "dict" THEN ErrorResponse(500, NoGetAttr(data))
    ELSE LET document_content == DictGet(data, "document_content", PyStr(""))
             document_name == DictGet(data, "document_name", PyStr("unnamed"))
         IN
         IF Truthy(document_content) /\ ~HasLen(document_content)
         THEN ErrorResponse(500, "object of type '" \o document_content.t
                                  \o "' has no len()")
         ELSE Response(200, {
                <<"status", PyStr("success")>>,
                <<"document_name", document_name>>,
                <<"content_length",
                  PyInt(IF Truthy(document_content)
                        THEN PyLen(document_content) ELSE 0)>>,
                <<"message", PyStr("Document " \o PyFormat(document_name)
                                   \o " processed successfully")>>})

query_knowledge(req) ==
    LET got == get_json(req) IN
    IF got.raised THEN ErrorResponse(500, got.value.v)
    ELSE LET data == got.value IN
    IF ~Truthy(data) THEN ErrorResponse(400, "No query data provided")
    ELSE IF data.t # "dict" THEN ErrorResponse(500, NoGetAttr(data))
    ELSE Response(200, {
            <<"status", PyStr("success")>>,
            <<"query", DictGet(data, "query", PyStr(""))>>,
            <<"kb_id", DictGet(data, "kb_id", PyStr(""))>>,
            <<"results", PyList(<<>>)>>,
            <<"message", PyStr("Query processed successfully")>>})

create_knowledge_base(req) ==
    LET got == get_json(req) IN
    IF got.raised THEN ErrorResponse(500, got.value.v)
    ELSE LET data == got.value IN
    IF ~Truthy(data) THEN ErrorResponse(400, "No data provided")
    ELSE IF data.t # "dict" THEN ErrorResponse(500, NoGetAttr(data))
    ELSE LET kb_name == DictGet(data, "name", PyStr("")) IN
         Response(200, {
            <<"status", PyStr("success")>>,
            <<"kb_name", kb_name>>,
            <<"tenant_id", DictGet(data, "tenant_id", PyStr(""))>>,
            <<"kb_id", PyStr("generated_kb_id")>>,
            <<"message", PyStr("Knowledge base " \o PyFormat(kb_name)
                               \o " created successfully")>>})

\* The blueprint's routing table.
Dispatch(req) ==
    CASE req.path = RPC_PREFIX \o "/health" -> health_check
      [] req.path = RPC_PREFIX \o "/process_document" -> process_document(req)
      [] req.path = RPC_PREFIX \o "/query_knowledge" -> query_knowledge(req)
      [] req.path = RPC_PREFIX \o "/create_knowledge_base" -> create_knowledge_base(req)

(***************************************************************************)
(* Requests the clients send.                                              *)
(***************************************************************************)
Absent == [kind |-> "absent"]
Malformed == [kind |-> "malformed"]
Json(x) == [kind |-> "json", value |-> x]

\* Bodies that are not a non-empty JSON object.
BareBodies ==
    {Absent, Malformed, Json(None), Json(PyDict({})), Json(PyList(<<>>)),
     Json(PyList(<<PyInt(1)>>)), Json(PyInt(5))}

Obj2(k1, v1, k2, v2) == Json(PyDict({<<k1, v1>>, <<k2, v2>>}))
Obj1(k1, v1) == Json(PyDict({<<k1, v1>>}))

DocumentBodies ==
    {Obj2("document_content", PyStr(c), "document_name", PyStr(n)) :
        c \in {"", "hello"}, n \in {"", "a.txt"}}
    \cup {Obj2("document_content", PyInt(5), "document_name", PyStr("a.txt")),
          Obj2("document_content", PyList(<<PyInt(1)>>), "document_name", PyStr("a.txt")),
          Obj2("document_content", PyStr("hello"), "document_name", PyInt(7)),
          Obj1("document_content", PyStr("hello")),
          Obj1("document_name", PyStr("a.txt"))}

QueryBodies ==
    {Obj2("query", PyStr("q"), "kb_id", PyStr("kb1")),
     Obj2("query", PyInt(3), "kb_id", PyStr("kb1")),
     Obj1("kb_id", PyStr("kb1"))}

CreateBodies ==
    {Obj2("name", PyStr("kb"), "tenant_id", PyStr("t1")),
     Obj2("name", PyInt(3), "tenant_id", PyStr("t1")),
     Obj1("name", PyStr("kb"))}

Post(path, body) == [method |-> "POST", path |-> RPC_PREFIX \o path, body |-> body]

Requests ==
    {[method |-> "GET", path |-> RPC_PREFIX \o "/health", body |-> Absent]}
    \cup {Post("/process_document", b) : b \in BareBodies \cup DocumentBodies}
    \cup {Post("/query_knowledge", b) : b \in BareBodies \cup QueryBodies}
    \cup {Post("/create_knowledge_base", b) : b \in BareBodies \cup CreateBodies}

NoExchange == [req |-> None, resp |-> None, registry |-> {}]

\* One worker serves one request; the exchange may be kept for comparison.
Serve(req) ==
    /\ last' = [req |-> req, resp |-> Dispatch(req), registry |-> instances]
    /\ \/ pinned' = pinned
       \/ pinned = NoExchange /\ pinned' = last'
    /\ UNCHANGED <<strict_json, reg_vars, cfg_vars, sgl_vars, obs_vars>>

(***************************************************************************)
(* api/nacos_config.py: NacosConfigManager                                 *)
(***************************************************************************)
PyFloat(tenths) == [t |-> "float", v |-> tenths]

\* dict[key] = value
DictSet(d, key, value) == PyDict({p \in d.v : p[1] # key} \cup {<<key, value>>})

\* `x or default`
PyOr(x, default) == IF Truthy(x) THEN x ELSE default

\* An argument the caller leaves out takes the signature's default.
Omitted == [t |-> "omitted"]
Param(x, default) == IF x = Omitted THEN default ELSE x

\* __init__: the process-wide defaults, read from the environment once.
self_service_name == PyStr(IF env = "set" THEN "rag-env" ELSE "ragflow-plus")
self_group == PyStr(IF env = "set" THEN "ENV_GROUP" ELSE "DEFAULT_GROUP")
self_service_port == PyInt(IF env = "set" THEN 9381 ELSE 9380)
self_service_host == PyStr(IF env = "set" THEN "10.0.0.9" ELSE "127.0.0.1")

DefaultWeight == PyFloat(10)

NoCall == [op |-> "none"]
NoInstance == [service_name |-> None]
Idle == [op |-> "idle"]

(* ---- configuration ---- *)

\* The key get_config caches under: f"{group}:{data_id}".
CacheKey(group, data_id) == PyFormat(group) \o ":" \o PyFormat(data_id)

\* get_config's cache write after the client answered.
CacheAfterGet(cache, data_id, group, client) ==
    IF ~client.raised /\ Truthy(client.value)
    THEN DictSet(cache, CacheKey(group, data_id), client.value)
    ELSE cache

\* get_config's return value after the client answered.
get_config_result(client) ==
    IF client.raised THEN Returned(None) ELSE Returned(client.value)

\* yaml.safe_load on the texts the registry serves here.
yaml_safe_load(text) ==
    CASE text = "a: 1" -> Returned(PyDict({<<"a", PyInt(1)>>}))
      [] text = "42"   -> Returned(PyInt(42))
      [] text = "- 1"  -> Returned(PyList(<<PyInt(1)>>))
      [] text = "# c"  -> Returned(None)
      [] text = "a: [" -> Raised("YAMLError")
      [] text = ""     -> Returned(None)

\* get_yaml_config, given what its get_config call returned.
get_yaml_config_result(got) ==
    IF got.raised THEN got
    ELSE IF Truthy(got.value)
    THEN LET parsed == yaml_safe_load(got.value.v) IN
         IF parsed.raised THEN Returned(PyDict({})) ELSE parsed
    ELSE Returned(PyDict({}))

\* self.client.get_config(data_id, group, timeout_ms) is sent; thread t waits.
GetConfigCall(t, op, data_id, group_arg, client) ==
    /\ fetched[t] = Idle
    /\ LET group == Param(group_arg, PyStr("DEFAULT_GROUP")) IN
       /\ fetched' = [fetched EXCEPT ![t] =
              [op |-> op, data_id |-> data_id, group |-> group, client |-> client]]
       /\ latest' = IF client.raised THEN latest
                    ELSE DictSet(latest, <<group, data_id>>, client.value)
    /\ UNCHANGED <<config_cache, rpc_vars, reg_vars, sgl_vars, obs_vars>>

\* The rest of get_config (and of get_yaml_config around it) in thread t.
GetConfigReturn(t) ==
    /\ fetched[t] # Idle
    /\ LET f == fetched[t]
           got == get_config_result(f.client)
           out == IF f.op = "get_yaml_config" THEN get_yaml_config_result(got) ELSE got
       IN
       /\ config_cache' = CacheAfterGet(config_cache, f.data_id, f.group, f.client)
       /\ last_call' = [op |-> f.op,
                        args |-> [data_id |-> f.data_id, group |-> f.group],
                        client_raised |-> f.client.raised,
                        raised |-> out.raised, value |-> out.value]
    /\ fetched' = [fetched EXCEPT ![t] = Idle]
    /\ UNCHANGED <<latest, rpc_vars, env, instances, watchers, phase, sgl_vars, obs_vars>>

listen_config_result(client) ==
    IF client.raised THEN Returned(None) ELSE Returned(None)

listen_config(data_id, group_arg, cb, fails) ==
    /\ watchers' = IF fails THEN watchers
                   ELSE watchers \cup {<<data_id, Param(group_arg, PyStr("DEFAULT_GROUP")), cb>>}
    /\ LET out == listen_config_result(IF fails THEN Raised("unreachable")
                                                 ELSE Returned(None))
       IN last_call' = [op |-> "listen_config",
                        args |-> [data_id |-> data_id, group |-> group_arg, cb |-> cb],
                        client_raised |-> fails,
                        raised |-> out.raised, value |-> out.value]
    /\ UNCHANGED <<rpc_vars, env, instances, phase, cfg_vars, sgl_vars, obs_vars>>

(* ---- naming ---- *)

\* The registry's uniqueness key of an instance.
InstanceKey(i) == <<i.service_name, i.group_name, i.ip, i.port, i.cluster_name>>

\* `default if x is None else x`
IfNone(x, default) == IF x = None THEN default ELSE x

RegisterRequest_is_none(args) ==
    [service_name |-> IfNone(Param(args.service_name, None), self_service_name),
     ip           |-> IfNone(Param(args.host, None), self_service_host),
     port         |-> IfNone(Param(args.port, None), self_service_port),
     weight       |-> Param(args.weight, DefaultWeight),
     group_name   |-> IfNone(Param(args.group, None), self_group),
     cluster_name |-> "DEFAULT",
     enable       |-> TRUE,
     healthy      |-> TRUE]

\* What register_service hands to client.add_naming_instance.
RegisterRequest(args) ==
    [service_name |-> PyOr(Param(args.service_name, None), self_service_name),
     ip           |-> PyOr(Param(args.host, None), self_service_host),
     port         |-> PyOr(Param(args.port, None), self_service_port),
     weight       |-> Param(args.weight, DefaultWeight),
     group_name   |-> PyOr(Param(args.group, None), self_group),
     cluster_name |-> "DEFAULT",
     enable       |-> TRUE,
     healthy      |-> TRUE]

DeregisterRequest_given_port(args) ==
    [service_name |-> PyOr(Param(args.service_name, None), self_service_name),
     ip           |-> PyOr(Param(args.host, None), self_service_host),
     port         |-> Param(args.port, None),
     group_name   |-> PyOr(Param(args.group, None), self_group),
     cluster_name |-> "DEFAULT"]

\* What deregister_service hands to client.remove_naming_instance.
DeregisterRequest(args) ==
    [service_name |-> PyOr(Param(args.service_name, None), self_service_name),
     ip           |-> PyOr(Param(args.host, None), self_service_host),
     port         |-> PyOr(Param(args.port, None), self_service_port),
     group_name   |-> PyOr(Param(args.group, None), self_group),
     cluster_name |-> "DEFAULT"]

ListRequest_default_group(service_name, group) ==
    [service_name |-> service_name,
     group_name   |-> PyStr("DEFAULT_GROUP"),
     cluster      |-> "DEFAULT"]

\* What get_service_instances hands to client.list_naming_instances.
ListRequest(service_name, group) ==
    [service_name |-> service_name,
     group_name   |-> Param(group, PyStr("DEFAULT_GROUP")),
     cluster      |-> "DEFAULT"]

\* The registry: add (or replace) an instance, remove one, list a service's.
add_naming_instance(reg, i) ==
    {j \in reg : InstanceKey(j) # InstanceKey(i)} \cup {i}

remove_naming_instance(reg, r) ==
    {j \in reg : InstanceKey(j) # InstanceKey(r)}

list_naming_instances(reg, q) ==
    {j \in reg : /\ j.service_name = q.service_name
                 /\ j.group_name = q.group_name
                 /\ j.cluster_name = q.cluster}

register_service_result(client) ==
    IF client.raised THEN Returned(None) ELSE Returned(None)

deregister_service_result(client) ==
    IF client.raised THEN Returned(None) ELSE Returned(None)

get_service_instances_result_reraise(client) == client

\* The listing is returned as the client gave it; a failure becomes [].
get_service_instances_result(client) ==
    IF client.raised THEN Returned(PyList(<<>>)) ELSE Returned(client.value)

ClientDid(fails, value) == IF fails THEN Raised("unreachable") ELSE Returned(value)

register_service(args, fails) ==
    /\ LET sent == RegisterRequest(args)
           out == register_service_result(ClientDid(fails, None))
       IN
       /\ fails \/ Cardinality(add_naming_instance(instances, sent)) <= MaxInstances
       /\ instances' = IF fails THEN instances
                       ELSE add_naming_instance(instances, sent)
       /\ last_call' = [op |-> "register_service", args |-> args, sent |-> sent,
                        client_raised |-> fails,
                        raised |-> out.raised, value |-> out.value]
    /\ UNCHANGED <<rpc_vars, env, watchers, cfg_vars, sgl_vars>>

deregister_service(args, fails) ==
    /\ LET sent == DeregisterRequest(args)
           out == deregister_service_result(ClientDid(fails, None))
       IN
       /\ instances' = IF fails THEN instances
                       ELSE remove_naming_instance(instances, sent)
       /\ last_call' = [op |-> "deregister_service", args |-> args, sent |-> sent,
                        client_raised |-> fails,
                        raised |-> out.raised, value |-> out.value,
                        removed |-> instances' # instances]
    /\ UNCHANGED <<rpc_vars, env, watchers, cfg_vars, sgl_vars>>

\* The value get_service_instances returns from the registry state reg.
get_service_instances_value(reg, service_name, group, fails) ==
    get_service_instances_result(
        ClientDid(fails, [t |-> "hosts",
                          v |-> list_naming_instances(reg, ListRequest(service_name, group))]))

get_service_instances(service_name, group, fails) ==
    /\ LET out == get_service_instances_value(instances, service_name, group, fails) IN
       last_call' = [op |-> "get_service_instances",
                     args |-> [service_name |-> service_name, group |-> group],
                     client_raised |-> fails,
                     raised |-> out.raised, value |-> out.value]
    /\ UNCHANGED <<rpc_vars, env, instances, watchers, phase, cfg_vars, sgl_vars, obs_vars>>

(***************************************************************************)
(* api/nacos_config.py: get_nacos_config_manager                           *)
(***************************************************************************)
Threads == 1..NumThreads

At(place, obj) == [at |-> place, obj |-> obj]

\* A thread calls get_nacos_config_manager().
Enter(t) ==
    /\ pc[t].at = "idle"
    /\ pc' = [pc EXCEPT ![t] = At("test", 0)]
    /\ UNCHANGED <<nacos_config_manager, constructed, ret, rpc_vars, reg_vars, cfg_vars, obs_vars>>

\* if nacos_config_manager is None:
Test(t) ==
    /\ pc[t].at = "test"
    /\ pc' = [pc EXCEPT ![t] =
            IF nacos_config_manager = 0 THEN At("construct", 0) ELSE At("return", 0)]
    /\ UNCHANGED <<nacos_config_manager, constructed, ret, rpc_vars, reg_vars, cfg_vars, obs_vars>>

\* NacosConfigManager(): a new object, with a new NacosClient.
Construct(t) ==
    /\ pc[t].at = "construct"
    /\ constructed' = constructed + 1
    /\ pc' = [pc EXCEPT ![t] = At("store", constructed + 1)]
    /\ UNCHANGED <<nacos_config_manager, ret, rpc_vars, reg_vars, cfg_vars, obs_vars>>

\* nacos_config_manager = <the new object>
Store(t) ==
    /\ pc[t].at = "store"
    /\ nacos_config_manager' = pc[t].obj
    /\ pc' = [pc EXCEPT ![t] = At("return", 0)]
    /\ UNCHANGED <<constructed, ret, rpc_vars, reg_vars, cfg_vars, obs_vars>>

\* return nacos_config_manager
Return(t) ==
    /\ pc[t].at = "return"
    /\ ret' = [ret EXCEPT ![t] = nacos_config_manager]
    /\ pc' = [pc EXCEPT ![t] = At("idle", 0)]
    /\ UNCHANGED <<nacos_config_manager, constructed, rpc_vars, reg_vars, cfg_vars, obs_vars>>

(***************************************************************************)
(* Initial state: the module is imported, nothing has been called.         *)
(***************************************************************************)
StartUp ==
    /\ last = NoExchange
    /\ pinned = NoExchange
    /\ instances = {}
    /\ watchers = {}
    /\ config_cache = PyDict({})
    /\ fetched = [t \in Threads |-> Idle]
    /\ latest = PyDict({})
    /\ last_call = NoCall
    /\ phase = "started"
    /\ nacos_config_manager = 0
    /\ constructed = 0
    /\ pc = [t \in Threads |-> At("idle", 0)]
    /\ ret = [t \in Threads |-> 0]
    /\ registered = {}
    /\ last_removed = NoInstance

(* ---- the manager's operations, each against a registry that may fail ---- *)
ConfigTexts == {"", "a: 1", "42", "- 1", "# c", "a: ["}

ConfigAnswers ==
    {Raised("timeout"), Returned(None)} \cup {Returned(PyStr(c)) : c \in ConfigTexts}

NoArgs ==
    [service_name |-> Omitted, group |-> Omitted, port |-> Omitted, host |-> Omitted,
     weight |-> Omitted]

KbArgs ==
    [service_name |-> PyStr("kb"), group |-> PyStr("G1"), port |-> PyInt(8080),
     host |-> PyStr("10.0.0.2"), weight |-> PyFloat(25)]

Init ==
    /\ StartUp
    /\ strict_json = TRUE
    /\ env \in {"unset", "set"}

Next ==
    \/ \E op \in {"get_config", "get_yaml_config"}, c \in ConfigAnswers :
            GetConfigCall(1, op, PyStr("app.yaml"), Omitted, c)
    \/ GetConfigReturn(1)
    \/ \E cb \in {None, PyStr("on_change")}, fails \in BOOLEAN :
            listen_config(PyStr("app.yaml"), Omitted, cb, fails)
    \/ \E args \in {NoArgs, KbArgs}, fails \in BOOLEAN :
            register_service(args, fails) /\ UNCHANGED <<phase, obs_vars>>
    \/ \E args \in {NoArgs, KbArgs}, fails \in BOOLEAN :
            deregister_service(args, fails) /\ UNCHANGED <<phase, obs_vars>>
    \/ \E n \in {PyStr("ragflow-plus"), PyStr("kb")}, g \in {Omitted, PyStr("G1")},
          fails \in BOOLEAN :
            get_service_instances(n, g, fails)

Spec == Init /\ [][Next]_vars

(* ---- concurrent get_config calls on colliding and distinct keys ---- *)
ConfigPairs ==
    {<<PyStr("a"), PyStr("c")>>, <<PyStr("a"), PyStr("b:c")>>, <<PyStr("a:b"), PyStr("c")>>}

FetchAnswers ==
    {Raised("timeout"), Returned(None), Returned(PyStr("a: 1")), Returned(PyStr("42"))}

InitConfig ==
    /\ StartUp
    /\ strict_json = TRUE
    /\ env = "unset"

NextConfig ==
    \/ \E t \in Threads, p \in ConfigPairs, c \in FetchAnswers :
            GetConfigCall(t, "get_config", p[2], p[1], c)
    \/ \E t \in Threads : GetConfigReturn(t)

SpecConfig == InitConfig /\ [][NextConfig]_vars

(* ---- registration, deregistration and listing in any order ---- *)
Falsy(x) == x \in {Omitted, None, PyStr(""), PyInt(0)}

\* The arguments as the caller gave them: the construction value where one
\* was left out.
AsGiven(a) ==
    [service_name |-> Param(a.service_name, self_service_name),
     group_name   |-> Param(a.group, self_group),
     ip           |-> Param(a.host, self_service_host),
     port         |-> Param(a.port, self_service_port),
     cluster_name |-> "DEFAULT"]

\* The arguments as register_service resolves them: the construction value
\* where one was left out or is falsy.
AsResolved(a) ==
    [service_name |-> IF Falsy(a.service_name) THEN self_service_name ELSE a.service_name,
     group_name   |-> IF Falsy(a.group) THEN self_group ELSE a.group,
     ip           |-> IF Falsy(a.host) THEN self_service_host ELSE a.host,
     port         |-> IF Falsy(a.port) THEN self_service_port ELSE a.port,
     cluster_name |-> "DEFAULT"]

SameInstance(a, b) == InstanceKey(AsResolved(a)) = InstanceKey(AsResolved(b))


RegArgs(name, group, port, host) ==
    [service_name |-> name, group |-> group, port |-> port, host |-> host,
     weight |-> Omitted]

RegistryArgs ==
    {RegArgs(Omitted, Omitted, Omitted, Omitted),
     RegArgs(Omitted, Omitted, PyInt(0), Omitted),
     RegArgs(PyStr("kb"), PyStr("G1"), PyInt(8080), PyStr("10.0.0.2")),
     RegArgs(PyStr("kb"), PyStr("G1"), PyInt(0), PyStr("10.0.0.2")),
     RegArgs(PyStr("kb"), Omitted, PyInt(8080), Omitted),
     RegArgs(Omitted, PyStr("G1"), PyInt(8080), Omitted)}

InitRegistry ==
    /\ StartUp
    /\ strict_json = TRUE
    /\ env \in {"unset", "set"}

NextRegistry ==
    \/ \E args \in RegistryArgs, fails \in BOOLEAN :
            /\ register_service(args, fails)
            /\ registered' = IF fails THEN registered ELSE registered \cup {args}
            /\ last_removed' = IF ~fails /\ last_removed = AsResolved(args)
                               THEN NoInstance ELSE last_removed
            /\ UNCHANGED phase
    \/ \E args \in RegistryArgs, fails \in BOOLEAN :
            /\ deregister_service(args, fails)
            /\ registered' = IF fails THEN registered
                             ELSE {a \in registered : ~SameInstance(a, args)}
            /\ last_removed' = IF ~fails /\ \E a \in registered : SameInstance(a, args)
                               THEN AsResolved(args) ELSE last_removed
            /\ UNCHANGED phase
    \/ \E n \in {PyStr("ragflow-plus"), PyStr("kb")}, g \in {Omitted, PyStr("G1")},
          fails \in BOOLEAN :
            get_service_instances(n, g, fails)

SpecRegistry == InitRegistry /\ [][NextRegistry]_vars

(* ---- one process: register at start-up, deregister at shutdown ---- *)
LifecycleArgs ==
    [service_name : {Omitted, None, PyStr(""), PyStr("kb")},
     group        : {Omitted, PyStr(""), PyStr("G1")},
     port         : {Omitted, PyInt(0), PyInt(8080)},
     host         : {Omitted, PyStr(""), PyStr("10.0.0.2")},
     weight       : {Omitted, PyFloat(0), PyFloat(25)}]

InitLifecycle ==
    /\ StartUp
    /\ strict_json = TRUE
    /\ env \in {"unset", "set"}

NextLifecycle ==
    \/ /\ phase = "started"
       /\ \E args \in LifecycleArgs, fails \in BOOLEAN : register_service(args, fails)
       /\ phase' = "serving"
       /\ UNCHANGED obs_vars
    \/ /\ phase = "serving"
       /\ \E fails \in BOOLEAN : deregister_service(last_call.args, fails)
       /\ phase' = "stopped"
       /\ UNCHANGED obs_vars

SpecLifecycle == InitLifecycle /\ [][NextLifecycle]_vars

(* ---- request threads racing through get_nacos_config_manager ---- *)
InitSingleton ==
    /\ StartUp
    /\ strict_json = TRUE
    /\ env \in {"unset", "set"}

NextSingleton ==
    \E t \in Threads : Enter(t) \/ Test(t) \/ Construct(t) \/ Store(t) \/ Return(t)

SpecSingleton == InitSingleton /\ [][NextSingleton]_vars

(* ---- the HTTP workers, beside a manager that registers and deregisters ---- *)
InitRpc ==
    /\ StartUp
    /\ strict_json \in BOOLEAN
    /\ env = "unset"

NextRpc ==
    \/ \E req \in Requests : Serve(req)
    \/ \E fails \in BOOLEAN : register_service(NoArgs, fails) /\ UNCHANGED <<phase, obs_vars>>
    \/ \E fails \in BOOLEAN : deregister_service(NoArgs, fails) /\ UNCHANGED <<phase, obs_vars>>

SpecRpc == InitRpc /\ [][NextRpc]_vars

(***************************************************************************)
(* Properties of the HTTP layer (SpecRpc)                                  *)
(***************************************************************************)
PostPaths ==
    {RPC_PREFIX \o "/process_document", RPC_PREFIX \o "/query_knowledge",
     RPC_PREFIX \o "/create_knowledge_base"}

\* The string fields each POST endpoint documents.
ExpectedFields(path) ==
    CASE path = RPC_PREFIX \o "/process_document" -> {"document_content", "document_name"}
      [] path = RPC_PREFIX \o "/query_knowledge" -> {"query", "kb_id"}
      [] path = RPC_PREFIX \o "/create_knowledge_base" -> {"name", "tenant_id"}

\* A body that is missing, does not parse, is no JSON object, is the empty
\* object, or carries a documented field that is not a string.
BadBody(req) ==
    \/ req.body.kind \in {"absent", "malformed"}
    \/ /\ req.body.kind = "json"
       /\ \/ req.body.value.t # "dict"
          \/ req.body.value.v = {}
          \/ \E p \in req.body.value.v :
                p[1] \in ExpectedFields(req.path) /\ p[2].t # "str"

Served == last # NoExchange

\* C1: every POST request with a missing or malformed body is answered with a
\* 4xx status and a body that has an `error` field.
C1_BadBodyIsClientError ==
    (Served /\ last.req.path \in PostPaths /\ BadBody(last.req))
        => /\ last.resp.status \in 400..499
           /\ "error" \in DictKeys(last.resp.json)

\* C8: a request that was served before receives the same response again,
\* whatever was served and whatever the manager did in between; the health
\* check answers 200 "healthy" in every state.
C8_ResponseDependsOnRequestOnly ==
    /\ (pinned # NoExchange /\ Served /\ last.req = pinned.req)
            => last.resp = pinned.resp
    /\ (Served /\ last.req.path = RPC_PREFIX \o "/health")
            => /\ last.resp.status = 200
               /\ DictGet(last.resp.json, "status", None) = PyStr("healthy")

\* The same health check served once with an empty registry and once with
\* the process registered, after a registry failure.
C8_Witness ==
    /\ pinned # NoExchange
    /\ last.req = pinned.req
    /\ last.req.path = RPC_PREFIX \o "/health"
    /\ pinned.registry = {}
    /\ last.registry # {}

IsStr(x) == x.t = "str"

\* C9: a process_document body with a string document_content and a string
\* document_name is answered 200 with the name, the content's length and the
\* message "Document <name> processed successfully".
C9_ProcessDocumentEcho ==
    (/\ Served
     /\ last.req.path = RPC_PREFIX \o "/process_document"
     /\ last.req.body.kind = "json"
     /\ last.req.body.value.t = "dict"
     /\ DictKeys(last.req.body.value) = {"document_content", "document_name"}
     /\ \A p \in last.req.body.value.v : IsStr(p[2]))
    => LET content == DictGet(last.req.body.value, "document_content", None).v
           name == DictGet(last.req.body.value, "document_name", None).v
       IN
       /\ last.resp.status = 200
       /\ last.resp.json.v =
            {<<"status", PyStr("success")>>,
             <<"document_name", PyStr(name)>>,
             <<"content_length", PyInt(Len(content))>>,
             <<"message", PyStr("Document " \o name \o " processed successfully")>>}

\* The specification's end-to-end example: "hello" in a.txt has length 5.
C9_Witness ==
    /\ Served
    /\ last.req = Post("/process_document",
                       Obj2("document_content", PyStr("hello"),
                            "document_name", PyStr("a.txt")))
    /\ DictGet(last.resp.json, "content_length", None) = PyInt(5)

(***************************************************************************)
(* Properties of the manager's failure policy (Spec)                       *)
(***************************************************************************)
\* What each operation returns when the registry client raised.
Degraded(op) ==
    CASE op = "get_config" -> None
      [] op = "get_yaml_config" -> PyDict({})
      [] op = "get_service_instances" -> PyList(<<>>)
      [] op \in {"listen_config", "register_service", "deregister_service"} -> None

\* C3: when the registry client call fails, the manager operation returns
\* normally with its degraded value and no exception reaches the caller.
C3_LogAndDegrade ==
    (last_call # NoCall /\ last_call.client_raised)
        => /\ ~last_call.raised
           /\ last_call.value = Degraded(last_call.op)

\* A listing against an unreachable registry, with an instance registered.
C3_Witness ==
    /\ last_call # NoCall
    /\ last_call.op = "get_service_instances"
    /\ last_call.client_raised
    /\ instances # {}

\* C4: get_yaml_config returns a mapping for every content the registry can
\* serve, never None or another value, and never raises.
C4_YamlIsAlwaysMapping ==
    (last_call # NoCall /\ last_call.op = "get_yaml_config")
        => /\ ~last_call.raised
           /\ last_call.value.t = "dict"

(***************************************************************************)
(* Properties of registration (SpecLifecycle, SpecRegistry)                *)
(***************************************************************************)
Supplied(x) == x # Omitted /\ x # None

\* C7 as stated: an omitted argument takes the construction value, a
\* supplied one is used exactly as supplied, falsy or not; the instance is
\* submitted enabled, healthy and with the given weight (1.0 when omitted).
C7_SuppliedUsedAsGiven ==
    (last_call # NoCall /\ last_call.op = "register_service")
        => LET a == last_call.args
               r == last_call.sent
           IN
           /\ r.service_name = IF Supplied(a.service_name) THEN a.service_name
                                ELSE self_service_name
           /\ r.group_name = IF Supplied(a.group) THEN a.group ELSE self_group
           /\ r.port = IF Supplied(a.port) THEN a.port ELSE self_service_port
           /\ r.ip = IF Supplied(a.host) THEN a.host ELSE self_service_host
           /\ r.enable /\ r.healthy
           /\ r.weight = IF a.weight = Omitted THEN PyFloat(10) ELSE a.weight

\* C7 as amended: an argument that is omitted or falsy (None, "", 0) takes the
\* construction value, any other is used exactly as supplied; the instance
\* is submitted enabled, healthy and with the given weight (1.0 when omitted,
\* a weight of 0 as given).
C7_FalsyTakesDefault ==
    (last_call # NoCall /\ last_call.op = "register_service")
        => LET a == last_call.args
               r == last_call.sent
           IN
           /\ r.service_name = IF Falsy(a.service_name) THEN self_service_name
                                ELSE a.service_name
           /\ r.group_name = IF Falsy(a.group) THEN self_group ELSE a.group
           /\ r.port = IF Falsy(a.port) THEN self_service_port ELSE a.port
           /\ r.ip = IF Falsy(a.host) THEN self_service_host ELSE a.host
           /\ r.enable /\ r.healthy
           /\ r.weight = IF a.weight = Omitted THEN PyFloat(10) ELSE a.weight

\* Port 0 and an empty host supplied beside an explicit name and weight 0.
C7_Witness ==
    /\ last_call # NoCall
    /\ last_call.op = "register_service"
    /\ ~last_call.client_raised
    /\ last_call.args.port = PyInt(0)
    /\ last_call.args.host = PyStr("")
    /\ last_call.args.service_name = PyStr("kb")
    /\ last_call.args.weight = PyFloat(0)
    /\ last_call.sent.port = self_service_port
    /\ last_call.sent \in instances

\* The instances get_service_instances returns for r's service and group
\* while the registry answers.
Listing(r) ==
    get_service_instances_value(instances, r.service_name, r.group_name, FALSE).value.v

\* The listing for r's service and group has a healthy, enabled instance at
\* r's host and port.
Listed(r) ==
    \E j \in Listing(r) : j.ip = r.ip /\ j.port = r.port /\ j.healthy /\ j.enable

\* The listing for r's service and group has the instance with r's key.
HasKey(r) == \E j \in Listing(r) : InstanceKey(j) = InstanceKey(r)

\* C5 as stated: while a completed registration is in force, the listing for
\* the same service and group has a healthy, enabled instance at the host and
\* port given to register_service (the construction value where none was).
C5_GivenHostPortListed ==
    \A a \in registered : Listed(AsGiven(a))

\* C5 as amended: the listing has a healthy, enabled instance at the host and
\* port register_service resolved: those given, or the construction values
\* where none was given or a falsy one (port 0, an empty host) was.
C5_ResolvedHostPortListed ==
    \A a \in registered : Listed(AsResolved(a))

\* Port 0 was given for service kb in group G1 and the process default is
\* listed, after other calls and beside another instance.
C5_Witness ==
    /\ \E a \in registered :
            /\ a.port = PyInt(0)
            /\ a.service_name = PyStr("kb")
            /\ a.group = PyStr("G1")
            /\ Listed(AsResolved(a))
    /\ last_call.op = "deregister_service"
    /\ Cardinality(instances) = 2

\* C6: once deregister_service has completed against a working registry
\* with the arguments of an earlier register_service, the listing for that
\* service and group lacks the instance with that key, until it is
\* registered again.
C6_DeregisteredIsNotListed ==
    last_removed # NoInstance => ~HasKey(last_removed)

\* The instance registered with all arguments left out was removed, and
\* stays unlisted while another instance is registered afterwards.
C6_Witness ==
    /\ last_removed # NoInstance
    /\ last_removed.port = self_service_port
    /\ last_call.op = "register_service"
    /\ ~last_call.client_raised
    /\ instances # {}

(***************************************************************************)
(* Properties of the configuration cache (SpecConfig)                      *)
(***************************************************************************)
Missing == [t |-> "missing"]

\* The cache entry of a (group, data_id) pair.
CacheEntry(p) == DictGet(config_cache, CacheKey(p[1], p[2]), Missing)

Quiescent == \A t \in Threads : fetched[t] = Idle

\* C10: when no get_config is in progress, the cache entry of a (group,
\* data_id) pair is absent or is what the registry answered to the latest
\* fetch of that pair that did not fail.
C10_CacheIsLatestFetch ==
    Quiescent =>
        \A p \in ConfigPairs :
            \/ CacheEntry(p) = Missing
            \/ CacheEntry(p) = DictGet(latest, p, Missing)

(***************************************************************************)
(* Properties of the singleton accessor (SpecSingleton)                    *)
(***************************************************************************)
\* C2: at most one NacosConfigManager is ever constructed, all calls of
\* get_nacos_config_manager return that one, and the global, once assigned,
\* keeps its value.
C2_SingleManager ==
    /\ [](/\ constructed <= 1
          /\ \A t, u \in Threads : (ret[t] # 0 /\ ret[u] # 0) => ret[t] = ret[u])
    /\ [][nacos_config_manager # 0 => nacos_config_manager' = nacos_config_manager]_vars

====
